---- MODULE Spec2Model ----
(***************************************************************************)
(* Model of the simulation engine of fund_app.py: run_single_simulation    *)
(* and run_continuous_simulation, iterating over the rows of the aligned   *)
(* price table df.                                                         *)
(*                                                                         *)
(* Numbers.  The code computes in floating point.  The model computes      *)
(* exactly: every unit count and every value is a fixed-point number with  *)
(* denominator Scale (the integer n stands for n / Scale).  Every division *)
(* of the code divides an integer amount (capital, transfer amount) by a   *)
(* price, and every price divides Scale, so no division rounds.  An ROI is *)
(* a fraction in lowest terms.                                             *)
(*                                                                         *)
(* Dates.  A date is the ordinal of a day of a non-leap year (1 = 1 Jan).  *)
(*                                                                         *)
(* Tickers.  A ticker is a sequence of characters.                         *)
(***************************************************************************)
EXTENDS Integers, Sequences, FiniteSets, TLC

\* The largest number of rows of the price table.
MaxDays == 4

(***************************************************************************)
(* Inputs                                                                  *)
(***************************************************************************)
Prices == {1, 2}
\* 1 February and 6 February
StartDates == {32, 37}
Gaps == {5}
Capitals == {4, 6}
TransferAmounts == {3}
TransferDaySets == {{6, 16, 26}, {11, 16}}
TargetPercents == {50, 100}

\* (mother ticker, child tickers, columns of the price table) as typed in
\* the sidebar and as downloaded.
Configs ==
    { [mom |-> <<" ", "b">>, children |-> <<>>,
       columns |-> {<<"B">>}],
      [mom |-> <<" ", "b">>, children |-> << <<"q">> >>,
       columns |-> {<<"B">>, <<"Q">>}],
      [mom |-> <<" ", "b">>, children |-> << <<"q">>, <<"s", " ">> >>,
       columns |-> {<<"B">>, <<"Q">>, <<"S">>}],
      [mom |-> <<" ", "b">>, children |-> << <<"z">>, <<"q">> >>,
       columns |-> {<<"B">>, <<"Q">>}],
      [mom |-> <<"x">>, children |-> << <<"q">> >>,
       columns |-> {<<"B">>, <<"Q">>}] }

(***************************************************************************)
(* Arithmetic                                                              *)
(***************************************************************************)
RECURSIVE Product(_)
Product(S) == IF S = {} THEN 1
              ELSE LET x == CHOOSE y \in S : TRUE IN x * Product(S \ {x})

\* The least common multiple of the prices.
Scale == CHOOSE s \in 1..Product(Prices) :
            /\ \A p \in Prices : s % p = 0
            /\ \A r \in 1..(s - 1) : \E p \in Prices : r % p # 0

\* The integer n as a fixed-point number.
Fix(n) == n * Scale

\* a / price, for a fixed-point a and an integer price.
Over(a, price) == a \div price

RECURSIVE GCD(_, _)
GCD(a, b) == IF b = 0 THEN a ELSE GCD(b, a % b)

Abs(n) == IF n < 0 THEN -n ELSE n

\* The fraction n / d (d > 0) in lowest terms.
Rat(n, d) == LET g == GCD(Abs(n), d) IN [num |-> n \div g, den |-> d \div g]

Zero == [num |-> 0, den |-> 1]

\* A local variable that has not been assigned.
Unbound == [num |-> 0, den |-> 0]

Geq(a, b) == a.num * b.den >= b.num * a.den

Less(a, b) == a.num * b.den < b.num * a.den

(***************************************************************************)
(* Dates                                                                   *)
(***************************************************************************)
MonthLens == <<31, 28, 31, 30, 31, 30, 31, 31, 30, 31, 30, 31>>

RECURSIVE DayIn(_, _)
DayIn(d, m) == IF m > Len(MonthLens) \/ d <= MonthLens[m] THEN d
               ELSE DayIn(d - MonthLens[m], m + 1)

\* date_idx.day
Day(d) == DayIn(d, 1)

(***************************************************************************)
(* Tickers: t.upper().strip()                                              *)
(***************************************************************************)
UpperChar(c) == CASE c = "b" -> "B"
                  [] c = "q" -> "Q"
                  [] c = "s" -> "S"
                  [] c = "x" -> "X"
                  [] c = "z" -> "Z"
                  [] OTHER -> c

Upper(t) == [k \in 1..Len(t) |-> UpperChar(t[k])]

RECURSIVE StripLeft(_)
StripLeft(t) == IF t # <<>> /\ Head(t) = " " THEN StripLeft(Tail(t)) ELSE t

RECURSIVE StripRight(_)
StripRight(t) == IF t # <<>> /\ t[Len(t)] = " "
                 THEN StripRight(SubSeq(t, 1, Len(t) - 1)) ELSE t

Strip(t) == StripRight(StripLeft(t))

Clean(t) == Strip(Upper(t))

\* Line 83 with the raw ticker looked up in the table:
\* [t.upper().strip() for t in child_ticks if t in df.columns]
RECURSIVE ActiveChildrenRawLookup(_, _)
ActiveChildrenRawLookup(ticks, cols) ==
    IF ticks = <<>> THEN <<>>
    ELSE LET rest == ActiveChildrenRawLookup(Tail(ticks), cols)
         IN IF Head(ticks) \in cols THEN <<Clean(Head(ticks))>> \o rest ELSE rest

\* [t.upper().strip() for t in child_ticks if t.upper().strip() in df.columns]
RECURSIVE ActiveChildren(_, _)
ActiveChildren(ticks, cols) ==
    IF ticks = <<>> THEN <<>>
    ELSE LET t == Clean(Head(ticks))
             rest == ActiveChildren(Tail(ticks), cols)
         IN IF t \in cols THEN <<t>> \o rest ELSE rest

\* {t: 0.0 for t in child_ticks}
ZeroUnits(ticks) == [t \in {ticks[k] : k \in 1..Len(ticks)} |-> 0]

VARIABLES
    df,                   \* the rows of the price table read so far
    eof,                  \* the table has no row after those of df
    columns,              \* df.columns
    mom_ticker,           \* sidebar: mother ticker
    child_tickers_input,  \* sidebar: child tickers
    initial_capital,      \* sidebar: capital
    transfer_amount,      \* sidebar: amount of each transfer
    transfer_days,        \* sidebar: days of the month of the transfers
    target_roi_percent,   \* sidebar: target ROI in percent
    call,                 \* the simulator that is invoked
    single,               \* locals of run_single_simulation
    cont                  \* locals of run_continuous_simulation

inputs == <<columns, mom_ticker, child_tickers_input, initial_capital,
            transfer_amount, transfer_days, target_roi_percent, call>>

vars == <<df, eof, inputs, single, cont>>

\* target_roi = target_roi_percent / 100
target_roi == Rat(target_roi_percent, 100)

(***************************************************************************)
(* The price table                                                         *)
(***************************************************************************)
\* The rows that can follow the rows read so far: dates ascend.
NextRows ==
    LET dates == IF df = <<>> THEN StartDates
                 ELSE {df[Len(df)].Date + g : g \in Gaps}
    IN [Date : dates, price : [columns -> Prices]]

\* The rows that row k of the table can be.
Candidates(k) ==
    IF k <= Len(df) THEN {df[k]}
    ELSE IF eof \/ Len(df) >= MaxDays THEN {}
    ELSE NextRows

\* Row k of the table is read and is `row`.
Reads(k, row) ==
    /\ row \in Candidates(k)
    /\ df' = IF k <= Len(df) THEN df ELSE Append(df, row)
    /\ eof' = eof

\* The table has no row k.
Exhausted(k) ==
    /\ k = Len(df) + 1
    /\ df' = df
    /\ eof' = TRUE

(***************************************************************************)
(* Initial state: the inputs are set, no simulator has run.                *)
(***************************************************************************)
SingleIdle ==
    [pc |-> "idle", i |-> 0, mom_tick |-> <<>>, child_ticks |-> <<>>,
     mom_units |-> 0, child_units |-> <<>>, records |-> <<>>,
     triggered |-> FALSE, funded |-> {}]

\* Line 138: the statistics {} returned when the mother ticker is missing;
\* also the value of stats before line 187 assigns it.
NoStats == [key \in {} |-> 0]

ContIdle ==
    [pc |-> "idle", i |-> 0, mom_tick |-> <<>>, child_ticks |-> <<>>,
     mom_units |-> 0, child_units |-> <<>>, records |-> <<>>,
     completed_rounds |-> <<>>, is_running |-> FALSE, round_start_date |-> 0,
     roi |-> Unbound, funded |-> {}, stats |-> NoStats]

Init ==
    /\ df = <<>>
    /\ eof = FALSE
    /\ \E c \in Configs :
         /\ mom_ticker = c.mom
         /\ child_tickers_input = c.children
         /\ columns = c.columns
    /\ initial_capital \in Capitals
    /\ transfer_amount \in TransferAmounts
    /\ transfer_days \in TransferDaySets
    /\ target_roi_percent \in TargetPercents
    /\ call \in {"single", "continuous"}
    /\ single = [SingleIdle EXCEPT !.pc = IF call = "single" THEN "call" ELSE "idle"]
    /\ cont = [ContIdle EXCEPT !.pc = IF call = "continuous" THEN "call" ELSE "idle"]

\* Lines 230 and 274: both simulations are called with the same table and
\* the same parameters.
InitBoth ==
    /\ df = <<>>
    /\ eof = FALSE
    /\ \E c \in Configs :
         /\ mom_ticker = c.mom
         /\ child_tickers_input = c.children
         /\ columns = c.columns
    /\ initial_capital \in Capitals
    /\ transfer_amount \in TransferAmounts
    /\ transfer_days \in TransferDaySets
    /\ target_roi_percent \in TargetPercents
    /\ call = "both"
    /\ single = [SingleIdle EXCEPT !.pc = "call"]
    /\ cont = [ContIdle EXCEPT !.pc = "call"]

\* Lines 230 and 274: the simulation f is the one called; when both are
\* called the script makes one call at a time, the single pass first.
Runs(f) ==
    \/ call = f
    \/ /\ call = "both"
       /\ f = "single" \/ single.pc \in {"done", "raised"}

(***************************************************************************)
(* run_single_simulation                                                   *)
(***************************************************************************)
\* Lines 82-91: the tickers are cleaned, a missing mother ticker returns an
\* empty result, and the capital buys mother units at the first row's price
\* (df[mom_tick].iloc[0] raises IndexError on a table without rows).
SingleCall ==
    /\ Runs("single")
    /\ single.pc = "call"
    /\ LET mom_tick == Clean(mom_ticker)
           child_ticks == ActiveChildren(child_tickers_input, columns)
       IN IF mom_tick \notin columns
          THEN /\ single' = [single EXCEPT !.pc = "done", !.mom_tick = mom_tick,
                                           !.child_ticks = child_ticks]
               /\ UNCHANGED <<df, eof>>
          ELSE \/ \E row \in Candidates(1) :
                    /\ Reads(1, row)
                    /\ single' = [single EXCEPT
                         !.pc = "loop", !.mom_tick = mom_tick,
                         !.child_ticks = child_ticks,
                         !.mom_units = Over(Fix(initial_capital), row.price[mom_tick]),
                         !.child_units = ZeroUnits(child_ticks)]
               \/ /\ Exhausted(1)
                  /\ single' = [single EXCEPT !.pc = "raised", !.mom_tick = mom_tick,
                                              !.child_ticks = child_ticks]
    /\ UNCHANGED <<inputs, cont>>

\* Lines 97-102: child_val_total, summed over child_ticks in order.
RECURSIVE SumOver(_, _)
SumOver(vals, ticks) ==
    IF ticks = <<>> THEN 0 ELSE vals[Head(ticks)] + SumOver(vals, Tail(ticks))

\* Lines 94-105: the valuation of the position at the prices of `row`.
SingleValuation(s, row, capital) ==
    LET mom_price == row.price[s.mom_tick]
        mom_val == s.mom_units * mom_price
        child_vals == [t \in DOMAIN s.child_units |-> s.child_units[t] * row.price[t]]
        child_val_total == SumOver(child_vals, s.child_ticks)
        total_val == mom_val + child_val_total
    IN [mom_price |-> mom_price, mom_val |-> mom_val, child_vals |-> child_vals,
        child_val_total |-> child_val_total, total_val |-> total_val,
        roi |-> Rat(total_val - Fix(capital), Fix(capital))]

\* Line 108 with a strict comparison: if roi > target
SingleTargetReachedStrict(roi, target) == Less(target, roi)

\* Line 108: if roi >= target
SingleTargetReached(roi, target) == Geq(roi, target)

\* Lines 120-123 with the child's units bought at the mother's price.
SingleTransferAtMotherPrice(st, k, t, mom_price, row, t_amt) ==
    [mom_units |-> st.mom_units - Over(Fix(t_amt), mom_price),
     mom_val |-> st.mom_val - Fix(t_amt),
     child_units |-> [st.child_units EXCEPT ![t] = @ + Over(Fix(t_amt), mom_price)],
     funded |-> st.funded \cup {k}]

\* Lines 120-123: one transfer to the child at position k.
SingleTransfer(st, k, t, mom_price, row, t_amt) ==
    [mom_units |-> st.mom_units - Over(Fix(t_amt), mom_price),
     mom_val |-> st.mom_val - Fix(t_amt),
     child_units |-> [st.child_units EXCEPT ![t] = @ + Over(Fix(t_amt), row.price[t])],
     funded |-> st.funded \cup {k}]

\* Lines 118-124: the loop over child_ticks, left at the first child that
\* the running mother value cannot fund.
RECURSIVE SingleTransfers(_, _, _, _, _, _)
SingleTransfers(st, k, ticks, mom_price, row, t_amt) ==
    IF k > Len(ticks) THEN st
    ELSE IF st.mom_val >= Fix(t_amt)
         THEN SingleTransfers(SingleTransfer(st, k, ticks[k], mom_price, row, t_amt),
                              k + 1, ticks, mom_price, row, t_amt)
         ELSE st

\* Lines 111 and 127: the record of a day; mom_val is the running value.
SingleRecord(row, v, mom_val, action) ==
    [Date |-> row.Date, Total_Value |-> v.total_val, Mom_Value |-> mom_val,
     Child_Total |-> v.child_val_total, ROI |-> v.roi, Action |-> action,
     Val |-> v.child_vals]

\* Lines 108-114 placed after the transfer block of lines 116-124: the
\* transfers of the day are made before the loop is left.
SingleStopProfitAfterTransfers ==
    /\ Runs("single")
    /\ single.pc = "loop"
    /\ \E row \in Candidates(single.i + 1) :
         LET v == SingleValuation(single, row, initial_capital)
             st0 == [mom_units |-> single.mom_units, mom_val |-> v.mom_val,
                     child_units |-> single.child_units, funded |-> {}]
             st == IF Day(row.Date) \in transfer_days
                   THEN SingleTransfers(st0, 1, single.child_ticks, v.mom_price,
                                        row, transfer_amount)
                   ELSE st0
         IN /\ SingleTargetReached(v.roi, target_roi)
            /\ Reads(single.i + 1, row)
            /\ single' = [single EXCEPT
                 !.pc = "done", !.i = @ + 1, !.triggered = TRUE, !.funded = {},
                 !.mom_units = st.mom_units, !.child_units = st.child_units,
                 !.records = Append(@, SingleRecord(row, v, v.mom_val, "Stop Profit"))]
    /\ UNCHANGED <<inputs, cont>>

\* Lines 108-114 and 131: the target is reached; the record is appended, the
\* loop is left and the function returns.
SingleStopProfit ==
    /\ Runs("single")
    /\ single.pc = "loop"
    /\ \E row \in Candidates(single.i + 1) :
         LET v == SingleValuation(single, row, initial_capital)
         IN /\ SingleTargetReached(v.roi, target_roi)
            /\ Reads(single.i + 1, row)
            /\ single' = [single EXCEPT
                 !.pc = "done", !.i = @ + 1, !.triggered = TRUE, !.funded = {},
                 !.records = Append(@, SingleRecord(row, v, v.mom_val, "Stop Profit"))]
    /\ UNCHANGED <<inputs, cont>>

\* Lines 94-129 without the stop: the transfers of a transfer day, and the
\* day's record.
SingleDay ==
    /\ Runs("single")
    /\ single.pc = "loop"
    /\ \E row \in Candidates(single.i + 1) :
         LET v == SingleValuation(single, row, initial_capital)
             st0 == [mom_units |-> single.mom_units, mom_val |-> v.mom_val,
                     child_units |-> single.child_units, funded |-> {}]
             st == IF Day(row.Date) \in transfer_days
                   THEN SingleTransfers(st0, 1, single.child_ticks, v.mom_price,
                                        row, transfer_amount)
                   ELSE st0
             action == IF st.funded # {} THEN "Transfer" ELSE "Hold"
         IN /\ ~SingleTargetReached(v.roi, target_roi)
            /\ Reads(single.i + 1, row)
            /\ single' = [single EXCEPT
                 !.i = @ + 1, !.mom_units = st.mom_units,
                 !.child_units = st.child_units, !.funded = st.funded,
                 !.records = Append(@, SingleRecord(row, v, st.mom_val, action))]
    /\ UNCHANGED <<inputs, cont>>

\* Lines 93 and 131: the rows are exhausted and the function returns.
SingleReturn ==
    /\ Runs("single")
    /\ single.pc = "loop"
    /\ Exhausted(single.i + 1)
    /\ single' = [single EXCEPT !.pc = "done", !.funded = {}]
    /\ UNCHANGED <<inputs, cont>>

(***************************************************************************)
(* run_continuous_simulation                                               *)
(***************************************************************************)
\* Lines 135-146: the tickers are cleaned, a missing mother ticker returns
\* an empty result (no records, the statistics {}, no rounds), and the
\* locals are initialised.
ContCall ==
    /\ Runs("continuous")
    /\ cont.pc = "call"
    /\ LET mom_tick == Clean(mom_ticker)
           child_ticks == ActiveChildren(child_tickers_input, columns)
       IN IF mom_tick \notin columns
          THEN cont' = [cont EXCEPT !.pc = "done", !.mom_tick = mom_tick,
                                    !.child_ticks = child_ticks]
          ELSE cont' = [cont EXCEPT
                 !.pc = "loop", !.mom_tick = mom_tick, !.child_ticks = child_ticks,
                 !.mom_units = 0, !.child_units = ZeroUnits(child_ticks),
                 !.records = <<>>, !.completed_rounds = <<>>,
                 !.is_running = FALSE, !.round_start_date = 0]
    /\ UNCHANGED <<df, eof, inputs, single>>

\* Lines 152-155 without line 153: the child holdings are kept.
EnteredKeepingChildren(c, row, capital) ==
    [c EXCEPT !.mom_units = Over(Fix(capital), row.price[c.mom_tick]),
              !.is_running = TRUE,
              !.round_start_date = row.Date]

\* Lines 152-155: the locals after the capital entered the mother fund at
\* the price of `row`.
Entered(c, row, capital) ==
    [c EXCEPT !.mom_units = Over(Fix(capital), row.price[c.mom_tick]),
              !.child_units = ZeroUnits(c.child_ticks),
              !.is_running = TRUE,
              !.round_start_date = row.Date]

\* Lines 151-157 with the Start record numbered len(completed_rounds).
ContStartNumberedFromZero ==
    /\ Runs("continuous")
    /\ cont.pc = "loop"
    /\ ~cont.is_running
    /\ \E row \in Candidates(cont.i + 1) :
         /\ Reads(cont.i + 1, row)
         /\ cont' = [Entered(cont, row, initial_capital) EXCEPT
              !.i = @ + 1,
              !.funded = {},
              !.records = Append(@, [Date |-> row.Date,
                                     Total_Value |-> Fix(initial_capital),
                                     ROI |-> Zero, Action |-> "Start",
                                     Round |-> Len(cont.completed_rounds)])]
    /\ UNCHANGED <<inputs, single>>

\* Lines 151-157: no round is running; the capital enters the mother fund at
\* the day's price and the iteration ends.
ContStart ==
    /\ Runs("continuous")
    /\ cont.pc = "loop"
    /\ ~cont.is_running
    /\ \E row \in Candidates(cont.i + 1) :
         /\ Reads(cont.i + 1, row)
         /\ cont' = [Entered(cont, row, initial_capital) EXCEPT
              !.i = @ + 1,
              !.funded = {},
              !.records = Append(@, [Date |-> row.Date,
                                     Total_Value |-> Fix(initial_capital),
                                     ROI |-> Zero, Action |-> "Start",
                                     Round |-> Len(cont.completed_rounds) + 1])]
    /\ UNCHANGED <<inputs, single>>

\* Lines 159-164: the valuation of the position at the prices of `row`.
ContValuation(c, row, capital) ==
    LET current_mom_price == row.price[c.mom_tick]
        mom_val == c.mom_units * current_mom_price
        child_vals == [t \in DOMAIN c.child_units |-> c.child_units[t] * row.price[t]]
        child_val_total == SumOver(child_vals, c.child_ticks)
        total_val == mom_val + child_val_total
    IN [mom_price |-> current_mom_price, mom_val |-> mom_val,
        child_val_total |-> child_val_total, total_val |-> total_val,
        roi |-> Rat(total_val - Fix(capital), Fix(capital))]

\* Line 167 with any gain stopping the round: if roi > 0
ContTargetReachedOnAnyGain(roi, target) == Less(Zero, roi)

\* Line 167: if roi >= target
ContTargetReached(roi, target) == Geq(roi, target)

\* Lines 168-172 with the duration counting both the first and the last day.
RoundSummaryInclusive(start, row, v, capital) ==
    [Start_Date |-> start, End_Date |-> row.Date,
     Duration |-> row.Date - start + 1,
     Profit |-> v.total_val - Fix(capital), Final_ROI |-> v.roi]

\* Lines 168-172: the summary of the round that ends on `row`.
RoundSummary(start, row, v, capital) ==
    [Start_Date |-> start, End_Date |-> row.Date,
     Duration |-> row.Date - start,
     Profit |-> v.total_val - Fix(capital), Final_ROI |-> v.roi]

\* Line 168 left out: the summary is not appended.
CompletedNotAppended(rounds, summary) == rounds

\* Line 168: completed_rounds.append(...)
Completed(rounds, summary) == Append(rounds, summary)

\* Lines 174-175 without line 174: is_running stays True.
StoppedStillRunning(c) == [c EXCEPT !.mom_units = 0]

\* Lines 174-175: the locals after a stop.
Stopped(c) == [c EXCEPT !.is_running = FALSE, !.mom_units = 0]

\* Lines 167-176: the target is reached; the round is summarised, the record
\* is appended and the iteration ends.
ContStopProfit ==
    /\ Runs("continuous")
    /\ cont.pc = "loop"
    /\ cont.is_running
    /\ \E row \in Candidates(cont.i + 1) :
         LET v == ContValuation(cont, row, initial_capital)
             rounds == Completed(cont.completed_rounds,
                                 RoundSummary(cont.round_start_date, row, v,
                                              initial_capital))
         IN /\ ContTargetReached(v.roi, target_roi)
            /\ Reads(cont.i + 1, row)
            /\ cont' = [Stopped(cont) EXCEPT
                 !.i = @ + 1, !.roi = v.roi, !.funded = {},
                 !.completed_rounds = rounds,
                 !.records = Append(@, [Date |-> row.Date,
                                        Total_Value |-> v.total_val,
                                        ROI |-> v.roi, Action |-> "Stop Profit",
                                        Round |-> Len(rounds)])]
    /\ UNCHANGED <<inputs, single>>

\* Lines 181-183: one transfer to the child at position k.
ContTransfer(st, k, t, mom_price, row, t_amt) ==
    [mom_units |-> st.mom_units - Over(Fix(t_amt), mom_price),
     mom_val |-> st.mom_val - Fix(t_amt),
     child_units |-> [st.child_units EXCEPT ![t] = @ + Over(Fix(t_amt), row.price[t])],
     funded |-> st.funded \cup {k}]

\* Lines 179-183 with the children tried from the last to the first.
RECURSIVE ContTransfersReversed(_, _, _, _, _, _)
ContTransfersReversed(st, k, ticks, mom_price, row, t_amt) ==
    IF k > Len(ticks) THEN st
    ELSE LET j == Len(ticks) + 1 - k
         IN ContTransfersReversed(
                IF st.mom_val >= Fix(t_amt)
                THEN [mom_units |-> st.mom_units - Over(Fix(t_amt), mom_price),
                      mom_val |-> st.mom_val - Fix(t_amt),
                      child_units |-> [st.child_units EXCEPT
                          ![ticks[j]] = @ + Over(Fix(t_amt), row.price[ticks[j]])],
                      funded |-> st.funded \cup {j}]
                ELSE st,
                k + 1, ticks, mom_price, row, t_amt)

\* Lines 179-183 with line 180 asking only for a positive mother value:
\* if mom_val > 0
RECURSIVE ContTransfersWhilePositive(_, _, _, _, _, _)
ContTransfersWhilePositive(st, k, ticks, mom_price, row, t_amt) ==
    IF k > Len(ticks) THEN st
    ELSE ContTransfersWhilePositive(
             IF st.mom_val > 0
             THEN ContTransfer(st, k, ticks[k], mom_price, row, t_amt)
             ELSE st,
             k + 1, ticks, mom_price, row, t_amt)

\* Lines 179-183: the loop over child_ticks; every child is tried.
RECURSIVE ContTransfers(_, _, _, _, _, _)
ContTransfers(st, k, ticks, mom_price, row, t_amt) ==
    IF k > Len(ticks) THEN st
    ELSE ContTransfers(IF st.mom_val >= Fix(t_amt)
                       THEN ContTransfer(st, k, ticks[k], mom_price, row, t_amt)
                       ELSE st,
                       k + 1, ticks, mom_price, row, t_amt)

\* Lines 159-185 without the stop: the transfers of a transfer day, and the
\* day's record, whose action stays "Hold".
ContDay ==
    /\ Runs("continuous")
    /\ cont.pc = "loop"
    /\ cont.is_running
    /\ \E row \in Candidates(cont.i + 1) :
         LET v == ContValuation(cont, row, initial_capital)
             st0 == [mom_units |-> cont.mom_units, mom_val |-> v.mom_val,
                     child_units |-> cont.child_units, funded |-> {}]
             st == IF Day(row.Date) \in transfer_days
                   THEN ContTransfers(st0, 1, cont.child_ticks, v.mom_price,
                                      row, transfer_amount)
                   ELSE st0
         IN /\ ~ContTargetReached(v.roi, target_roi)
            /\ Reads(cont.i + 1, row)
            /\ cont' = [cont EXCEPT
                 !.i = @ + 1, !.roi = v.roi, !.mom_units = st.mom_units,
                 !.child_units = st.child_units, !.funded = st.funded,
                 !.records = Append(@, [Date |-> row.Date,
                                        Total_Value |-> v.total_val,
                                        ROI |-> v.roi, Action |-> "Hold",
                                        Round |-> Len(cont.completed_rounds) + 1])]
    /\ UNCHANGED <<inputs, single>>

RECURSIVE SumField(_, _)
SumField(rounds, f) ==
    IF rounds = <<>> THEN 0 ELSE Head(rounds)[f] + SumField(Tail(rounds), f)

\* Line 190: "Current ROI": roi if is_running else 0.0
CurrentROI(c) == IF c.is_running THEN c.roi ELSE Zero

\* Lines 187-193 with the open round counted in "Total Rounds".
StatsCountingOpenRound(c) ==
    [Total_Rounds |-> Len(c.completed_rounds) + (IF c.is_running THEN 1 ELSE 0),
     Is_Running |-> c.is_running,
     Current_ROI |-> CurrentROI(c),
     Total_Profit |-> SumField(c.completed_rounds, "Profit"),
     Avg_Duration |-> IF c.completed_rounds # <<>>
                      THEN Rat(SumField(c.completed_rounds, "Duration"),
                               Len(c.completed_rounds))
                      ELSE Zero]

\* Lines 187-193: the aggregate statistics.
Stats(c) ==
    [Total_Rounds |-> Len(c.completed_rounds),
     Is_Running |-> c.is_running,
     Current_ROI |-> CurrentROI(c),
     Total_Profit |-> SumField(c.completed_rounds, "Profit"),
     Avg_Duration |-> IF c.completed_rounds # <<>>
                      THEN Rat(SumField(c.completed_rounds, "Duration"),
                               Len(c.completed_rounds))
                      ELSE Zero]

\* Lines 148 and 187-194: the rows are exhausted; the statistics are
\* computed and the function returns.  Reading roi while a round is running
\* raises UnboundLocalError when no day of any round was valued.
ContReturn ==
    /\ Runs("continuous")
    /\ cont.pc = "loop"
    /\ Exhausted(cont.i + 1)
    /\ IF cont.is_running /\ cont.roi = Unbound
       THEN cont' = [cont EXCEPT !.pc = "raised", !.funded = {}]
       ELSE cont' = [cont EXCEPT !.pc = "done", !.funded = {}, !.stats = Stats(cont)]
    /\ UNCHANGED <<inputs, single>>

Next ==
    \/ SingleCall
    \/ SingleStopProfit
    \/ SingleDay
    \/ SingleReturn
    \/ ContCall
    \/ ContStart
    \/ ContStopProfit
    \/ ContDay
    \/ ContReturn

(***************************************************************************)
(* Properties                                                              *)
(***************************************************************************)
Last(seq) == seq[Len(seq)]

TransferDay(row) == Day(row.Date) \in transfer_days

MotherPresent == Clean(mom_ticker) \in columns

\* C1: run_single_simulation stops with a Stop Profit record on the first
\* date whose ROI = (total value - capital) / capital is >= target and on no
\* earlier date: every record's ROI is recomputable from its total value, a
\* record is tagged Stop Profit exactly when its ROI >= target, no record
\* follows a Stop Profit record, triggered is true exactly when such a record
\* exists, and an untriggered run ends with one record per date.
C1_StopOnFirstTargetDate ==
    call = "single" =>
      LET r == single.records
          n == Len(r)
      IN /\ \A k \in 1..n :
              /\ r[k].ROI = Rat(r[k].Total_Value - Fix(initial_capital),
                                Fix(initial_capital))
              /\ r[k].Action = "Stop Profit" <=> Geq(r[k].ROI, target_roi)
              /\ r[k].Action = "Stop Profit" => k = n
              /\ r[k].Date = df[k].Date
         /\ single.triggered <=> (n > 0 /\ r[n].Action = "Stop Profit")
         /\ single.triggered => single.pc = "done"
         /\ (single.pc = "done" /\ ~single.triggered /\ MotherPresent)
              => (eof /\ n = Len(df))

\* C1 witness: a run that stopped on its third date or later, after a day
\* with a transfer.
C1_Witness ==
    /\ call = "single"
    /\ single.pc = "done"
    /\ single.triggered
    /\ Len(single.records) >= 3
    /\ \E k \in 1..Len(single.records) : single.records[k].Action = "Transfer"

\* C2: in every record of run_single_simulation the Total Value equals the
\* Mom Value plus the sum of the per-child values, and the Child Total equals
\* the sum of the per-child values.
C2_TotalIsMotherPlusChildren ==
    call = "single" =>
      \A k \in 1..Len(single.records) :
         LET r == single.records[k]
         IN /\ r.Total_Value = r.Mom_Value + SumOver(r.Val, single.child_ticks)
            /\ r.Child_Total = SumOver(r.Val, single.child_ticks)

\* The holdings `new` are the holdings `old` after the transfers to the
\* children at the positions new.funded, at the prices of `row`.
Moved(old, new, row) ==
    LET A == Fix(transfer_amount)
        mom_price == row.price[old.mom_tick]
        times(t) == Cardinality({k \in new.funded : old.child_ticks[k] = t})
        value(s) == s.mom_units * mom_price
                    + SumOver([t \in DOMAIN s.child_units |->
                                  s.child_units[t] * row.price[t]], s.child_ticks)
    IN /\ (old.mom_units - new.mom_units) * mom_price = Cardinality(new.funded) * A
       /\ \A t \in DOMAIN new.child_units :
             (new.child_units[t] - old.child_units[t]) * row.price[t] = times(t) * A
       /\ value(new) = value(old)

\* C3: in both simulators the transfers of a day, each of amount A, take
\* A / motherPrice(date) mother units per funded child, add A / childPrice(t,
\* date) units to each funded child t and to no other child, and leave the
\* total value at the date's prices unchanged.
C3_TransferMovesExactAmount ==
    [][ /\ single'.funded # {} => Moved(single, single', df'[single'.i])
        /\ cont'.funded # {} => Moved(cont, cont', df'[cont'.i]) ]_vars

\* C3 witness: a day of the single-pass simulator on which two children were
\* funded at prices that differ from the mother's.
C3_Witness ==
    /\ call = "single"
    /\ single.funded = {1, 2}
    /\ \E t \in DOMAIN single.child_units :
          df[single.i].price[t] # df[single.i].price[single.mom_tick]

\* Record k of run_single_simulation is the record of a transfer day, not a
\* stop, on which the mother value was below the transfer amount for the
\* first child.
Shortfall(k) ==
    LET r == single.records[k]
    IN /\ TransferDay(df[k])
       /\ r.Action # "Stop Profit"
       /\ single.child_ticks # <<>>
       /\ r.Total_Value - r.Child_Total < Fix(transfer_amount)

\* C4: a transfer day of run_single_simulation, not a stop, on which the
\* mother value is below the transfer amount is tagged InsufficientFunds and
\* changes no holdings; a day with at least one transfer is tagged Transfer.
C4_ShortfallTaggedInsufficientFunds ==
    call = "single" =>
      /\ \A k \in 1..Len(single.records) :
            Shortfall(k) => single.records[k].Action = "InsufficientFunds"
      /\ single.funded # {} => Last(single.records).Action = "Transfer"

\* The funded positions of the last day are the first ones, and the loop
\* ended where the running mother value fell below the transfer amount.
FundedPrefix(s) ==
    /\ s.funded = 1..Cardinality(s.funded)
    /\ (s.pc = "loop" /\ s.i >= 1 /\ TransferDay(df[s.i])
        /\ Last(s.records).Action \in {"Hold", "Transfer"})
         => LET running == s.mom_units * df[s.i].price[s.mom_tick]
                n == Cardinality(s.funded)
            IN /\ n < Len(s.child_ticks) => running < Fix(transfer_amount)
               /\ n > 0 => running >= 0

\* C5: in both simulators the children funded on a transfer day are a prefix
\* of the configured order: the children are tried in order against the
\* running mother value, and after the first child it cannot fund no later
\* child is funded.
C5_FundedIsPrefix ==
    /\ FundedPrefix(single)
    /\ FundedPrefix(cont)

\* C5 witness: a day of the continuous simulator with two children of which
\* only the first was funded.
C5_Witness ==
    /\ call = "continuous"
    /\ Len(cont.child_ticks) = 2
    /\ cont.funded = {1}

StopIndexes == {k \in 1..Len(cont.records) : cont.records[k].Action = "Stop Profit"}

\* C6: after any prefix of the dates, completed_rounds has as many entries
\* as there are records tagged Stop Profit.
C6_RoundsEqualStopRecords ==
    call = "continuous" => Len(cont.completed_rounds) = Cardinality(StopIndexes)

\* C6 witness: a returned run with two completed rounds.
C6_Witness ==
    /\ call = "continuous"
    /\ cont.pc = "done"
    /\ Len(cont.completed_rounds) = 2

\* The index of the record that closed round j.
StopIndex(j) ==
    CHOOSE k \in StopIndexes : Cardinality({m \in StopIndexes : m <= k}) = j

\* The index of the Start record that opened the round closed by record k.
StartIndex(k) ==
    CHOOSE m \in 1..k :
       /\ cont.records[m].Action = "Start"
       /\ \A q \in (m + 1)..k : cont.records[q].Action # "Start"

SummariesMatchRecords ==
    call = "continuous" =>
      /\ Len(cont.completed_rounds) = Cardinality(StopIndexes)
      /\ \A j \in 1..Len(cont.completed_rounds) :
            LET s == cont.completed_rounds[j]
                stop == cont.records[StopIndex(j)]
                start == cont.records[StartIndex(StopIndex(j))]
            IN /\ s.Start_Date = start.Date
               /\ s.End_Date = stop.Date
               /\ s.Duration = s.End_Date - s.Start_Date
               /\ s.Duration >= 1
               /\ s.Profit = stop.Total_Value - Fix(initial_capital)

SummariesKept ==
    \A j \in 1..Len(cont.completed_rounds) :
       /\ j <= Len(cont'.completed_rounds)
       /\ cont'.completed_rounds[j] = cont.completed_rounds[j]

\* C7: every round summary has the date of the Start record that opened the
\* round as Start Date, the date of the Stop Profit record that closed it as
\* End Date, their difference in calendar days (at least 1) as Duration and
\* that record's total value minus the capital as Profit; a summary never
\* changes after it is appended.
C7_SummaryMatchesRound == []SummariesMatchRecords /\ [][SummariesKept]_vars

\* C7 witness: two completed rounds whose start dates differ.
C7_Witness ==
    /\ call = "continuous"
    /\ Len(cont.completed_rounds) = 2
    /\ cont.completed_rounds[1].Start_Date # cont.completed_rounds[2].Start_Date

\* C8: a Stop Profit record that is not the last record is followed by the
\* Start record of the very next date of the table, and after that entry day
\* the mother units are capital / motherPrice(that date) and every child's
\* units are 0, whether or not the entry day is a transfer day.
C8_ReentryOnNextDate ==
    call = "continuous" =>
      LET r == cont.records
          n == Len(r)
      IN /\ n = cont.i
         /\ \A k \in 1..n : r[k].Date = df[k].Date
         /\ \A k \in 1..(n - 1) :
               r[k].Action = "Stop Profit" => r[k + 1].Action = "Start"
         /\ (n >= 2 /\ r[n - 1].Action = "Stop Profit")
              => /\ cont.mom_units * df[n].price[cont.mom_tick] = Fix(initial_capital)
                 /\ \A t \in DOMAIN cont.child_units : cont.child_units[t] = 0
                 /\ cont.funded = {}

\* C8 witness: the entry day after a stop is a transfer day, children are
\* configured, and the round that stopped had funded a child.
C8_Witness ==
    /\ call = "continuous"
    /\ Len(cont.records) = 4
    /\ cont.records[3].Action = "Stop Profit"
    /\ cont.records[4].Action = "Start"
    /\ TransferDay(df[2])
    /\ TransferDay(df[4])
    /\ cont.child_ticks # <<>>
    /\ cont.records[3].Total_Value # cont.records[2].Total_Value

\* C9: whenever is_running is false, the mother units and every child's
\* units are 0.
C9_StoppedHoldsNothing ==
    (call = "continuous" /\ cont.pc \in {"loop", "done"} /\ ~cont.is_running)
      => /\ cont.mom_units = 0
         /\ \A t \in DOMAIN cont.child_units : cont.child_units[t] = 0

\* C10: when the dates are exhausted while a round is running, the stats
\* report Is Running = true and the ROI of the last record as Current ROI (0
\* when the last record is a Start record); when no round is running the
\* Current ROI is 0.
C10_CurrentRoiIsLastRecordRoi ==
    (call = "continuous" /\ eof /\ cont.pc # "loop" /\ MotherPresent)
      => /\ cont.pc = "done"
         /\ cont.stats.Is_Running = cont.is_running
         /\ cont.stats.Current_ROI =
               IF cont.is_running THEN Last(cont.records).ROI ELSE Zero

\* The sum of f[k] over the indexes k of S.
RECURSIVE SumAt(_, _)
SumAt(S, f) ==
    IF S = {} THEN 0
    ELSE LET k == CHOOSE x \in S : TRUE IN f[k] + SumAt(S \ {k}, f)

\* The profit and the duration of the round closed by record k, read from
\* the records.
ProfitAt == [k \in StopIndexes |->
                cont.records[k].Total_Value - Fix(initial_capital)]

DurationAt == [k \in StopIndexes |->
                  cont.records[k].Date - cont.records[StartIndex(k)].Date]

\* C11: the returned statistics have the number of completed rounds (an open
\* round is not counted) as Total Rounds, the sum of their profits as Total
\* Profit and the mean of their durations as Avg Duration; without a
\* completed round Avg Duration and Total Profit are 0.
C11_StatsAggregateCompletedRounds ==
    (call = "continuous" /\ cont.pc = "done" /\ MotherPresent)
      => LET n == Cardinality(StopIndexes)
             st == cont.stats
         IN /\ st.Total_Rounds = n
            /\ st.Total_Rounds = Len(cont.completed_rounds)
            /\ st.Total_Profit = SumAt(StopIndexes, ProfitAt)
            /\ st.Avg_Duration.den > 0
            /\ st.Avg_Duration.num * n = SumAt(StopIndexes, DurationAt) * st.Avg_Duration.den
            /\ n = 0 => (st.Avg_Duration = Zero /\ st.Total_Profit = 0)

\* C11 witness: a returned run with one completed round and an open round.
C11_Witness ==
    /\ call = "continuous"
    /\ cont.pc = "done"
    /\ MotherPresent
    /\ cont.stats.Total_Rounds = 1
    /\ cont.stats.Is_Running
    /\ cont.stats.Total_Profit > 0


\* The positions of the typed child tickers that the table has a column for.
UsablePositions ==
    {j \in 1..Len(child_tickers_input) : Clean(child_tickers_input[j]) \in columns}

\* The k-th usable position.
UsablePosition(k) ==
    CHOOSE j \in UsablePositions : Cardinality({x \in UsablePositions : x <= j}) = k

\* The children of simulator s are the typed children that the table has a
\* column for, cleaned, in the typed order.
ChildrenAreUsableOnes(s) ==
    /\ Len(s.child_ticks) = Cardinality(UsablePositions)
    /\ \A k \in 1..Len(s.child_ticks) :
          s.child_ticks[k] = Clean(child_tickers_input[UsablePosition(k)])

\* C12: with the mother ticker absent from the table both simulators refuse
\* to run: they return the empty result (no record, no round summary; the
\* continuous statistics are {}) without reading a date, and only this
\* outcome has that result; an absent child ticker is no error and only
\* leaves the active children.
C12_MissingMotherRefused ==
    /\ ~MotherPresent =>
         /\ df = <<>> /\ ~eof
         /\ single.pc \in {"idle", "call", "done"}
         /\ single.i = 0 /\ single.records = <<>> /\ ~single.triggered
         /\ cont.pc \in {"idle", "call", "done"}
         /\ cont.i = 0 /\ cont.records = <<>> /\ cont.completed_rounds = <<>>
         /\ cont.stats = NoStats
    /\ MotherPresent =>
         /\ single.pc = "done" => single.records # <<>>
         /\ cont.pc = "done" => cont.stats # NoStats
         /\ single.pc \in {"loop", "done", "raised"} => ChildrenAreUsableOnes(single)
         /\ cont.pc \in {"loop", "done", "raised"} => ChildrenAreUsableOnes(cont)

\* C12 witness: the continuous simulator returned for a missing mother.
C12_Witness ==
    /\ ~MotherPresent
    /\ call = "continuous"
    /\ cont.pc = "done"

\* C13: on a table with the mother's column and no rows both simulators end
\* without records and without an exception.
C13_EmptyTableEndsWithoutRecords ==
    (MotherPresent /\ df = <<>> /\ eof)
      => /\ single.pc \in {"idle", "done"} /\ single.records = <<>>
         /\ cont.pc \in {"idle", "loop", "done"} /\ cont.records = <<>>


\* The step appended a "Stop Profit" record to the records of the simulator
\* whose locals were s and are t.
StopStep(s, t) ==
    /\ Len(t.records) = Len(s.records) + 1
    /\ Last(t.records).Action = "Stop Profit"

\* C14: the day on which the target is reached makes no transfer, transfer
\* day or not: the single pass leaves the mother's and the children's units
\* as they were, and the continuous simulation increases no child's units.
C14_NoTransferOnStopDay ==
    [][/\ StopStep(single, single') =>
            /\ single'.mom_units = single.mom_units
            /\ single'.child_units = single.child_units
       /\ StopStep(cont, cont') =>
            /\ DOMAIN cont'.child_units = DOMAIN cont.child_units
            /\ \A t \in DOMAIN cont.child_units :
                  cont'.child_units[t] <= cont.child_units[t]]_vars

\* C14 witness: the single pass stopped on a transfer day on which the
\* mother's value would have funded a child.
C14_Witness ==
    /\ call = "single"
    /\ single.triggered
    /\ TransferDay(df[single.i])
    /\ single.child_ticks # <<>>
    /\ Last(single.records).Mom_Value >= Fix(transfer_amount)


\* C15: prices, capital and transfer amount being positive, the mother's
\* units and every child's units are never negative, in either simulator.
C15_UnitsNeverNegative ==
    /\ single.mom_units >= 0
    /\ \A t \in DOMAIN single.child_units : single.child_units[t] >= 0
    /\ cont.mom_units >= 0
    /\ \A t \in DOMAIN cont.child_units : cont.child_units[t] >= 0

\* C15 witness: a transfer day of the continuous simulation funded a child
\* and left the mother with less than one transfer amount.
C15_Witness ==
    /\ call = "continuous"
    /\ cont.pc = "loop"
    /\ cont.funded # {}
    /\ cont.mom_units * df[cont.i].price[cont.mom_tick] < Fix(transfer_amount)


\* C16: a running day of run_continuous_simulation, not a stop, is tagged as
\* the single pass tags it: Transfer when at least one child was funded,
\* InsufficientFunds when transfers were due and none was funded, and Hold
\* only when no transfer was attempted.
C16_RunningDayTaggedAsSinglePass ==
    (/\ call = "continuous"
     /\ cont.pc = "loop"
     /\ cont.i >= 1
     /\ Last(cont.records).Action \notin {"Start", "Stop Profit"})
      => LET attempted == TransferDay(df[cont.i]) /\ cont.child_ticks # <<>>
         IN Last(cont.records).Action =
               IF cont.funded # {} THEN "Transfer"
               ELSE IF attempted THEN "InsufficientFunds"
               ELSE "Hold"


\* C17: run_continuous_simulation appends exactly one record per date, in
\* the ascending order of the dates; the first record is Start; a record is
\* Start exactly when it is the first or follows a Stop Profit record; no two
\* Stop Profit records are adjacent.
C17_OneRecordPerDateStartAfterStop ==
    call = "continuous" =>
      LET recs == cont.records
      IN /\ Len(recs) = cont.i
         /\ Len(recs) <= Len(df)
         /\ (MotherPresent /\ cont.pc \in {"done", "raised"}) => Len(recs) = Len(df)
         /\ \A k \in 1..Len(recs) :
               /\ recs[k].Date = df[k].Date
               /\ k > 1 => recs[k - 1].Date < recs[k].Date
               /\ recs[k].Action = "Start"
                    <=> (k = 1 \/ recs[k - 1].Action = "Stop Profit")
               /\ k > 1 => ~(recs[k - 1].Action = "Stop Profit"
                             /\ recs[k].Action = "Stop Profit")

\* C17 witness: a returned run of four dates whose second record is a stop
\* and whose fourth is a running day.
C17_Witness ==
    /\ call = "continuous"
    /\ cont.pc = "done"
    /\ Len(cont.records) = 4
    /\ cont.records[2].Action = "Stop Profit"
    /\ cont.records[4].Action = "Hold"


\* The (Date, Total Value, ROI) of the records.
Triples(recs) ==
    [k \in 1..Len(recs) |-> <<recs[k].Date, recs[k].Total_Value, recs[k].ROI>>]

\* The records of run_continuous_simulation up to and including the first
\* Stop Profit record; all of them if there is none.
FirstRound ==
    LET stop == IF StopIndexes = {} THEN Len(cont.records)
                ELSE CHOOSE k \in StopIndexes : \A m \in StopIndexes : k <= m
    IN SubSeq(cont.records, 1, stop)

\* C18: on a table whose first date is not a transfer day, with a positive
\* target, the (Date, Total Value, ROI) sequence that run_single_simulation
\* produces is the one run_continuous_simulation produces up to and
\* including its first Stop Profit record.
C18_SinglePassIsFirstRound ==
    (/\ call = "both"
     /\ MotherPresent
     /\ df # <<>>
     /\ ~TransferDay(df[1])
     /\ target_roi_percent > 0
     /\ single.pc = "done"
     /\ cont.pc \in {"done", "raised"})
      => /\ cont.pc = "done"
         /\ Triples(single.records) = Triples(FirstRound)

\* C19: the Round of every record of run_continuous_simulation is 1 plus the
\* number of Stop Profit records strictly before it, so it starts at 1 and
\* never decreases.
C19_RoundCountsEarlierStops ==
    call = "continuous" =>
      \A k \in 1..Len(cont.records) :
         /\ cont.records[k].Round = 1 + Cardinality({m \in StopIndexes : m < k})
         /\ k = 1 => cont.records[k].Round = 1
         /\ k > 1 => cont.records[k - 1].Round <= cont.records[k].Round

\* C19 witness: the record that closes the second round.
C19_Witness ==
    /\ call = "continuous"
    /\ cont.records # <<>>
    /\ Last(cont.records).Action = "Stop Profit"
    /\ Last(cont.records).Round = 2

\* C20: the capital being positive, every completed round has a final ROI of
\* at least the target and a profit of at least target * capital, so the
\* total profit is at least the number of rounds times target * capital.
C20_RoundsEarnAtLeastTarget ==
    call = "continuous" =>
      LET rounds == cont.completed_rounds
          floor == target_roi.num * Fix(initial_capital)
      IN /\ \A j \in 1..Len(rounds) :
               /\ Geq(rounds[j].Final_ROI, target_roi)
               /\ rounds[j].Profit * target_roi.den >= floor
         /\ SumField(rounds, "Profit") * target_roi.den >= Len(rounds) * floor
         /\ (cont.pc = "done" /\ MotherPresent) =>
               cont.stats.Total_Profit * target_roi.den
                 >= cont.stats.Total_Rounds * floor

\* C20 witness: a returned run whose rounds earned exactly the target.
C20_Witness ==
    /\ call = "continuous"
    /\ cont.pc = "done"
    /\ MotherPresent
    /\ cont.stats.Total_Rounds >= 1
    /\ cont.stats.Total_Profit * target_roi.den
         = cont.stats.Total_Rounds * target_roi.num * Fix(initial_capital)


Spec == Init /\ [][Next]_vars

\* Both simulations called on the same table with the same parameters.
SpecBoth == InitBoth /\ [][Next]_vars

====
